---- MODULE Spec2Model ----
(***************************************************************************)
(* A model of graphene_mongo: the field conversion dispatch table          *)
(* (converter.py), the map-entry type cache (helper_fields.py) and the     *)
(* connection/query field (fields.py).                                     *)
(*                                                                         *)
(* Python values are modelled as records.  A graphene value ("GV") is      *)
(*   [tag, name, required, description, inner, about]                      *)
(* where tag says what it is (a class, a scalar instance, a Field, a List, *)
(* a MapField, a Dynamic, a Connection field, None, or a raised error),    *)
(* inner holds the wrapped type(s) and about holds an error's arguments.   *)
(***************************************************************************)
EXTENDS Integers, Sequences, FiniteSets, TLC

VARIABLES
  registry,           \* Type Registry: document model -> registered type name ("" = none)
  entry_type_lookup,  \* helper_fields.entry_type_lookup: name -> <<>> or <<entry type>>
  created,            \* number of Entry classes synthesized so far (object identity)
  returned,           \* every (value type, entry type) a get_entry_type call returned
  first_call,         \* name -> <<>> or <<value type of the first call for that name>>
  conv,               \* the last convert_mongoengine_field call: its field and outcome
  cfield,             \* the last MongoengineConnectionField construction and its outcome
  argsOut,            \* the last evaluation of MongoengineConnectionField.args
  collection,         \* the documents of the model's collection, in natural order
  res,                \* the last default_resolver call: its inputs and outcome
  chain               \* the chained_resolver call in progress: its position and calls

vars == <<registry, entry_type_lookup, created, returned, first_call, conv,
          cfield, argsOut, collection, res, chain>>

(***************************************************************************)
(* Bounds of the model.                                                    *)
(***************************************************************************)
MaxEntries == 3   \* Entry classes synthesized in one run
MaxDocs == 10     \* documents in the collection of the pagination runs
MaxPage == 4      \* largest first / last argument

Range(s) == {s[i] : i \in DOMAIN s}

(***************************************************************************)
(* Graphene values.                                                        *)
(***************************************************************************)
GV(tag, name, required, description, inner, about) ==
  [tag |-> tag, name |-> name, required |-> required,
   description |-> description, inner |-> inner, about |-> about]

Class(name) == GV("class", name, FALSE, "", <<>>, <<>>)
Scalar(name, description, required) == GV("scalar", name, required, description, <<>>, <<>>)
Field(type, description, required) == GV("Field", "", required, description, <<type>>, <<>>)
List(of_type, description, required) == GV("List", "", required, description, <<of_type>>, <<>>)
Dynamic(model, description, kind) == GV("Dynamic", model, FALSE, description, <<>>, <<kind>>)
ConnectionFieldOf(type) == GV("Connection", "", FALSE, "", <<type>>, <<>>)
NoneValue == GV("None", "", FALSE, "", <<>>, <<>>)
Raise(exc, args) == GV("Error", exc, FALSE, "", <<>>, args)

\* isinstance(x, graphene.Field): MapField and ConnectionField subclass Field.
IsField(x) == x.tag \in {"Field", "MapField", "Connection"}
IsRaise(x) == x.tag = "Error"

(***************************************************************************)
(* Persisted field descriptors (mongoengine fields).                       *)
(***************************************************************************)
MF(kind, required, help_text, inner, model, choices) ==
  [kind |-> kind, required |-> required, help_text |-> help_text,
   inner |-> inner, model |-> model, choices |-> choices]

Models == {"A", "B"}

\* The classes the dispatch table is registered on (the @register decorators).
RegisteredKinds ==
  {"EmailField", "StringField", "URLField", "UUIDField", "ObjectIdField",
   "IntField", "LongField", "SequenceField", "BooleanField", "DecimalField",
   "FloatField", "DateTimeField", "DictField", "MapField", "PointField",
   "PolygonField", "MultiPolygonField", "FileField", "ListField",
   "EmbeddedDocumentListField", "GenericEmbeddedDocumentField",
   "GenericReferenceField", "EmbeddedDocumentField", "ReferenceField",
   "CachedReferenceField", "LazyReferenceField"}

\* Field classes no rule is registered on, directly or through a base class.
UnregisteredKinds == {"BinaryField", "DynamicField", "GeoPointField", "LineStringField"}

\* Subclasses that reach a rule through their base class.
InheritingKinds == {"ComplexDateTimeField", "DateField", "SortedListField", "ImageField"}

Kinds == RegisteredKinds \cup UnregisteredKinds \cup InheritingKinds

\* The base class of each field class (mongoengine's hierarchy; BaseField is the root).
Parent(kind) ==
  CASE kind \in {"EmailField", "URLField", "ComplexDateTimeField"} -> "StringField"
    [] kind = "DateField" -> "DateTimeField"
    [] kind = "MapField" -> "DictField"
    [] kind \in {"EmbeddedDocumentListField", "SortedListField"} -> "ListField"
    [] kind = "ImageField" -> "FileField"
    [] kind = "BaseField" -> "object"
    [] OTHER -> "BaseField"

RECURSIVE Mro(_)
Mro(kind) == IF kind = "object" THEN <<>> ELSE <<kind>> \o Mro(Parent(kind))

IsInstance(kind, classes) == \E i \in DOMAIN Mro(kind) : Mro(kind)[i] \in classes

\* functools.singledispatch: the rule of the first class of the MRO that has one,
\* and the undecorated function ("object") when none has.
RECURSIVE DispatchOn(_)
DispatchOn(mro) ==
  IF mro = <<>> THEN "object"
  ELSE IF Head(mro) \in RegisteredKinds THEN Head(mro)
  ELSE DispatchOn(Tail(mro))

Dispatch(kind) == DispatchOn(Mro(kind))

(***************************************************************************)
(* Type Registry (registry.py): get_type_for_model yields the type         *)
(* registered for a document model, or None.  A model's API type is either *)
(* a plain object type (<model>Type) or one implementing the relay Node    *)
(* interface (<model>Node).                                                *)
(***************************************************************************)
PlainType(m) == m \o "Type"
NodeType(m) == m \o "Node"
NodeTypes == {NodeType(m) : m \in Models}
TypeNames == {""} \cup {PlainType(m) : m \in Models} \cup NodeTypes

get_type_for_model(reg, model) ==
  IF reg[model] = "" THEN NoneValue ELSE Class(reg[model])

\* utils.get_field_description: the field's help text, or no description.
get_field_description(field, reg) == field.help_text

(***************************************************************************)
(* helper_fields.py                                                        *)
(***************************************************************************)
\* Whether value_type._meta.name can be read: only graphene type classes have _meta.
HasMeta(value_type) ==
  value_type.tag = "class" /\ value_type.name \notin {"NoneType", "ObjectTypeMeta"}

\* The class  type(f'{name}Entry', (Entry,), {})  built by the n-th synthesis.
EntryType(n, name, value_type) ==
  [tag |-> "class", name |-> name \o "Entry", id |-> n, value |-> value_type]

Get(dict, key) == IF key \in DOMAIN dict THEN dict[key] ELSE <<>>

Put(dict, key, value) ==
  [k \in DOMAIN dict \cup {key} |-> IF k = key THEN value ELSE dict[k]]

\* A get_entry_type that synthesizes a new Entry class on every call.
get_entry_type_uncached(value_type, st) ==
  IF ~HasMeta(value_type) THEN [out |-> Raise("AttributeError", <<>>), st |-> st]
  ELSE LET name == value_type.name
           entry_type == EntryType(st.created + 1, name, value_type)
       IN [out |-> entry_type,
           st |-> [st EXCEPT !.lookup = Put(st.lookup, name, <<entry_type>>),
                             !.created = st.created + 1]]

\* st = [lookup |-> entry_type_lookup, created |-> number of classes synthesized,
\*       returned, first_call |-> the record of the calls made (see Logged)].
get_entry_type(value_type, st) ==
  IF ~HasMeta(value_type) THEN [out |-> Raise("AttributeError", <<>>), st |-> st]
  ELSE LET name == value_type.name
           cached == Get(st.lookup, name)
       IN IF cached = <<>>   \* "if not entry_type": a class is always truthy
          THEN LET entry_type == EntryType(st.created + 1, name, value_type)
               IN [out |-> entry_type,
                   st |-> [st EXCEPT !.lookup = Put(st.lookup, name, <<entry_type>>),
                                     !.created = st.created + 1]]
          ELSE [out |-> cached[1], st |-> st]

\* The call get_entry_type(value_type), entered in the record of calls: what it
\* returned, and the value type of the first call made for each name.
Logged(value_type, st) ==
  LET r == get_entry_type(value_type, st)
  IN IF IsRaise(r.out) THEN r
     ELSE [out |-> r.out,
           st |-> [r.st EXCEPT
                     !.returned = @ \cup {<<value_type, r.out>>},
                     !.first_call = IF value_type.name \in DOMAIN @ THEN @
                                    ELSE Put(@, value_type.name, value_type)]]

\* MapField.__init__: a Field whose type is List(get_entry_type(value_type)).
MapField(value_type, description, required, st) ==
  LET e == Logged(value_type, st)
  IN IF IsRaise(e.out) THEN e
     ELSE [out |-> GV("MapField", "", required, description,
                      <<List(e.out, "", FALSE)>>, <<>>),
           st |-> e.st]

(***************************************************************************)
(* converter.py: the dispatch rules.  Each yields [out, st]: the value     *)
(* returned (or the error raised) and the entry cache afterwards.          *)
(***************************************************************************)
Ret(out, st) == [out |-> out, st |-> st]

\* A default rule that returns nothing instead of raising.
convert_unknown_silent(field, reg, st) == Ret(NoneValue, st)

\* The undecorated function: no rule matched.
convert_unknown(field, reg, st) ==
  Ret(Raise("MongoEngineConversionError", <<field, field.kind>>), st)

convert_field_to_string(field, reg, st) ==
  Ret(Scalar("String", get_field_description(field, reg), field.required), st)

convert_field_to_id(field, reg, st) ==
  Ret(Scalar("ID", get_field_description(field, reg), field.required), st)

convert_field_to_int(field, reg, st) ==
  Ret(Scalar("Int", get_field_description(field, reg), field.required), st)

convert_field_to_boolean(field, reg, st) ==
  Ret(Scalar("Boolean", get_field_description(field, reg), field.required), st)

convert_field_to_float(field, reg, st) ==
  Ret(Scalar("Float", get_field_description(field, reg), field.required), st)

convert_field_to_datetime(field, reg, st) ==
  Ret(Scalar("DateTime", get_field_description(field, reg), field.required), st)

convert_field_to_jsonstring(field, reg, st) ==
  Ret(Scalar("JSONString", get_field_description(field, reg), field.required), st)

\* graphene.Field(<type>) with no description and no required: both default.
convert_point_to_field(field, reg, st) ==
  Ret(Field(Class("PointFieldType"), "", FALSE), st)

convert_polygon_to_field(field, reg, st) ==
  Ret(Field(Class("PolygonFieldType"), "", FALSE), st)

convert_multipolygon_to_field(field, reg, st) ==
  Ret(Field(Class("MultiPolygonFieldType"), "", FALSE), st)

convert_file_to_field(field, reg, st) ==
  Ret(Field(Class("FileFieldType"), "", FALSE), st)

\* The deferred field: dynamic_type is evaluated when get_type() is called.
convert_field_to_dynamic(field, reg, st) ==
  Ret(Dynamic(field.model, get_field_description(field, reg), "plain"), st)

convert_lazy_field_to_dynamic(field, reg, st) ==
  Ret(Dynamic(field.model, get_field_description(field, reg), "lazy_resolver"), st)

\* Dynamic.get_type(): dynamic_type() against the registry as it is now.
DynamicGetType(dyn, reg) ==
  LET _type == get_type_for_model(reg, dyn.name)
  IN IF _type.tag = "None" THEN NoneValue
     ELSE GV("Field", "", FALSE, dyn.description, <<_type>>,
             IF dyn.about[1] = "lazy_resolver" THEN <<"lazy_resolver">> ELSE <<>>)

\* graphene.is_node: a class, an ObjectType, and one of its interfaces is Node.
is_node(objecttype) == objecttype.tag = "class" /\ objecttype.name \in NodeTypes

\* type(x) of a value.
TypeOf(x) ==
  CASE x.tag = "scalar" -> Class(x.name)
    [] x.tag = "None" -> Class("NoneType")
    [] x.tag = "class" -> Class("ObjectTypeMeta")
    [] OTHER -> Class(x.tag)

relations == {"ReferenceField", "EmbeddedDocumentField"}

RECURSIVE convert_mongoengine_field(_, _, _)

\* The part of convert_field_to_list after the element is converted to base.
ListOfBase(field, reg, base, st) ==
  IF IsField(base)
  THEN Ret(List(base.inner[1], get_field_description(field, reg), field.required), st)
  ELSE LET resolved == IF base.tag = "Dynamic" THEN DynamicGetType(base, reg) ELSE base
       IN IF base.tag = "Dynamic" /\ resolved.tag = "None" THEN Ret(NoneValue, st)
          ELSE LET base_type == IF base.tag = "Dynamic" THEN resolved.inner[1] ELSE base
               IN IF is_node(base_type)
                  \* base_type._meta.connection_field_class(base_type)
                  THEN Ret(ConnectionFieldOf(base_type), st)
                  ELSE LET of_type ==
                             IF base_type.tag \notin {"List", "NonNull"}
                                /\ ~IsInstance(field.inner[1].kind, relations)
                             THEN TypeOf(base_type) ELSE base_type
                       IN Ret(List(of_type, get_field_description(field, reg),
                                   field.required), st)

\* A convert_field_to_list that wraps a node element type in a plain list.
convert_field_to_list_no_connection(field, reg, st) ==
  LET r == convert_mongoengine_field(field.inner[1], reg, st)
  IN IF IsRaise(r.out) THEN r
     ELSE IF r.out.tag = "Dynamic" /\ DynamicGetType(r.out, reg).tag # "None"
     THEN Ret(List(DynamicGetType(r.out, reg).inner[1],
                   get_field_description(field, reg), field.required), r.st)
     ELSE ListOfBase(field, reg, r.out, r.st)

convert_field_to_list(field, reg, st) ==
  LET r == convert_mongoengine_field(field.inner[1], reg, st)
  IN IF IsRaise(r.out) THEN r ELSE ListOfBase(field, reg, r.out, r.st)

convert_field_to_map(field, reg, st) ==
  LET r == convert_mongoengine_field(field.inner[1], reg, st)
      base == r.out
  IN IF IsRaise(base) THEN r
     ELSE IF IsField(base)
     THEN MapField(base.inner[1], get_field_description(field, reg), field.required, r.st)
     ELSE LET resolved == IF base.tag = "Dynamic" THEN DynamicGetType(base, reg) ELSE base
          IN IF base.tag = "Dynamic" /\ resolved.tag = "None" THEN Ret(NoneValue, r.st)
             ELSE LET base_type == IF base.tag = "Dynamic" THEN resolved.inner[1] ELSE base
                      value_type ==
                        IF base_type.tag \notin {"List", "NonNull"}
                           /\ ~IsInstance(field.inner[1].kind, relations)
                        THEN TypeOf(base_type) ELSE base_type
                  IN MapField(value_type, get_field_description(field, reg),
                              field.required, r.st)

\* The loop of convert_field_to_union over field.choices: the resolved member types.
RECURSIVE UnionTypes(_, _, _, _)
UnionTypes(field, choices, reg, st) ==
  IF choices = <<>> THEN <<>>
  ELSE LET _field == MF(IF IsInstance(field.kind, {"GenericReferenceField"})
                        THEN "ReferenceField" ELSE "EmbeddedDocumentField",
                        FALSE, "", <<>>, Head(choices), <<>>)
           _type == DynamicGetType(convert_mongoengine_field(_field, reg, st).out, reg)
       IN (IF _type.tag # "None" THEN <<_type.inner[1]>> ELSE <<>>)
          \o UnionTypes(field, Tail(choices), reg, st)

\* The union class is named <owner>_<db_field>_union_<uuid1>; its members are inner.
convert_field_to_union(field, reg, st) ==
  LET _types == UnionTypes(field, field.choices, reg, st)
  IN IF Len(_types) = 0 THEN Ret(NoneValue, st)
     ELSE Ret(Field(GV("class", "Union", FALSE, "", _types, <<>>), "", FALSE), st)

convert_mongoengine_field(field, reg, st) ==
  LET rule == Dispatch(field.kind)
  IN CASE rule \in {"EmailField", "StringField", "URLField"} ->
            convert_field_to_string(field, reg, st)
       [] rule \in {"UUIDField", "ObjectIdField"} -> convert_field_to_id(field, reg, st)
       [] rule \in {"IntField", "LongField", "SequenceField"} ->
            convert_field_to_int(field, reg, st)
       [] rule = "BooleanField" -> convert_field_to_boolean(field, reg, st)
       [] rule \in {"DecimalField", "FloatField"} -> convert_field_to_float(field, reg, st)
       [] rule = "DateTimeField" -> convert_field_to_datetime(field, reg, st)
       [] rule = "DictField" -> convert_field_to_jsonstring(field, reg, st)
       [] rule = "MapField" -> convert_field_to_map(field, reg, st)
       [] rule = "PointField" -> convert_point_to_field(field, reg, st)
       [] rule = "PolygonField" -> convert_polygon_to_field(field, reg, st)
       [] rule = "MultiPolygonField" -> convert_multipolygon_to_field(field, reg, st)
       [] rule = "FileField" -> convert_file_to_field(field, reg, st)
       [] rule \in {"ListField", "EmbeddedDocumentListField"} ->
            convert_field_to_list(field, reg, st)
       [] rule \in {"GenericEmbeddedDocumentField", "GenericReferenceField"} ->
            convert_field_to_union(field, reg, st)
       [] rule \in {"EmbeddedDocumentField", "ReferenceField", "CachedReferenceField"} ->
            convert_field_to_dynamic(field, reg, st)
       [] rule = "LazyReferenceField" -> convert_lazy_field_to_dynamic(field, reg, st)
       [] OTHER -> convert_unknown(field, reg, st)

(***************************************************************************)
(* The fields the schema-building runs convert.                            *)
(***************************************************************************)
ContainerKinds == {"ListField", "EmbeddedDocumentListField", "SortedListField", "MapField"}
RelationKinds ==
  {"EmbeddedDocumentField", "ReferenceField", "CachedReferenceField", "LazyReferenceField"}
GenericKinds == {"GenericEmbeddedDocumentField", "GenericReferenceField"}
LeafKinds == Kinds \ (ContainerKinds \cup RelationKinds \cup GenericKinds)

StringFieldOf(required, help_text) == MF("StringField", required, help_text, <<>>, "", <<>>)

LeafFields ==
  {MF(k, r, "", <<>>, "", <<>>) : k \in LeafKinds, r \in BOOLEAN}
  \cup {MF(k, r, "help", <<>>, "", <<>>) : k \in {"StringField", "PointField"}, r \in BOOLEAN}
RelationFields ==
  {MF(k, r, "", <<>>, "A", <<>>) : k \in RelationKinds, r \in BOOLEAN}
  \cup {MF("ReferenceField", FALSE, "help", <<>>, "B", <<>>)}
GenericFields ==
  {MF(k, FALSE, "", <<>>, "", c) : k \in GenericKinds, c \in {<<>>, <<"A">>, <<"A", "B">>}}

\* What a container may hold.
ElementFields ==
  {f \in LeafFields : f.help_text = "" /\ ~f.required}
  \cup {f \in RelationFields : f.model = "A" /\ ~f.required}
  \cup {f \in GenericFields : Len(f.choices) < 2}
  \cup {MF("ListField", FALSE, "", <<StringFieldOf(FALSE, "")>>, "", <<>>),
        MF("ListField", FALSE, "", <<MF("ReferenceField", FALSE, "", <<>>, "A", <<>>)>>, "", <<>>)}

\* EmbeddedDocumentListField(document_type) always holds an EmbeddedDocumentField.
ListFields ==
  {MF("ListField", r, "", <<e>>, "", <<>>) : r \in BOOLEAN, e \in ElementFields}
  \cup {MF("SortedListField", r, "help", <<e>>, "", <<>>) :
          r \in BOOLEAN, e \in {f \in ElementFields : f.kind \in {"StringField", "ReferenceField"}}}
  \cup {MF("EmbeddedDocumentListField", r, "", <<e>>, "", <<>>) :
          r \in BOOLEAN, e \in {f \in ElementFields : f.kind = "EmbeddedDocumentField"}}

MapElementFields ==
  {f \in ElementFields :
     f.kind \in {"StringField", "PointField", "ReferenceField",
                 "CachedReferenceField", "ListField", "BinaryField"}
     /\ (f.kind = "ListField" => f.inner[1].kind = "StringField")}

MapFields == {MF("MapField", r, "", <<e>>, "", <<>>) : r \in BOOLEAN, e \in MapElementFields}

SchemaFields == LeafFields \cup RelationFields \cup GenericFields \cup ListFields

(***************************************************************************)
(* Schema building: registering types, converting fields, building map     *)
(* fields.                                                                 *)
(***************************************************************************)
NoField == MF("", FALSE, "", <<>>, "", <<>>)

\* A second class that declares the same name as cls.
OtherClass(name) == GV("class", name, FALSE, "", <<>>, <<"other">>)

ValueTypes == {Class("String"), Class("AType"), OtherClass("AType")}

EmptyDict == [k \in {} |-> <<>>]

InitSchema ==
  /\ registry = [m \in Models |-> ""]
  /\ entry_type_lookup = EmptyDict
  /\ created = 0
  /\ returned = {}
  /\ first_call = EmptyDict
  /\ conv = <<>>

CacheState ==
  [lookup |-> entry_type_lookup, created |-> created,
   returned |-> returned, first_call |-> first_call]

SetCache(st) ==
  /\ st.created <= MaxEntries
  /\ entry_type_lookup' = st.lookup
  /\ created' = st.created
  /\ returned' = st.returned
  /\ first_call' = st.first_call

\* Registry.register: the model's type is (re)bound.  conv holds the last converter
\* call made against the registry as it is, so a registration clears it.
Register(m, t) ==
  /\ registry' = [registry EXCEPT ![m] = t]
  /\ conv' = <<>>
  /\ UNCHANGED <<chain, entry_type_lookup, created, returned, first_call,
                 cfield, argsOut, collection, res>>

Convert(f) ==
  LET r == convert_mongoengine_field(f, registry, CacheState)
  IN /\ conv' = <<[call |-> "convert", field |-> f, out |-> r.out]>>
     /\ SetCache(r.st)
     /\ UNCHANGED <<chain, registry, cfield, argsOut, collection, res>>

GetEntryType(value_type) ==
  LET r == Logged(value_type, CacheState)
  IN /\ conv' = <<[call |-> "get_entry_type", field |-> NoField, out |-> r.out]>>
     /\ SetCache(r.st)
     /\ UNCHANGED <<chain, registry, cfield, argsOut, collection, res>>

MapFieldInit(value_type, description, required) ==
  LET r == MapField(value_type, description, required, CacheState)
  IN /\ conv' = <<[call |-> "MapField", field |-> NoField, out |-> r.out]>>
     /\ SetCache(r.st)
     /\ UNCHANGED <<chain, registry, cfield, argsOut, collection, res>>

(***************************************************************************)
(* fields.py: MongoengineConnectionField.                                  *)
(*                                                                         *)
(* A keyword-argument dict is a function on the names it holds.  An        *)
(* optional value (one that may be None) is <<>> or <<value>>.             *)
(***************************************************************************)
HasKey(dict, key) == key \in DOMAIN dict
Pop(dict, key) == [k \in DOMAIN dict \ {key} |-> dict[k]]
PopValue(dict, key) == IF key \in DOMAIN dict THEN <<dict[key]>> ELSE <<>>
Update(dict, other) == other @@ dict

\* MongoengineConnectionField.__init__: get_queryset is <<>> (not given) or <<value>>;
\* a value is [callable, truthy, returns, ...].
ConnectionFieldInit(get_queryset) ==
  IF get_queryset # <<>> /\ get_queryset[1].truthy /\ ~get_queryset[1].callable
  THEN [status |-> "AssertionError", _get_queryset |-> <<>>]
  ELSE [status |-> "ok", _get_queryset |-> get_queryset]

(***************************************************************************)
(* Documents and queries.  A document is [pk, age, author, text, score];   *)
(* a QuerySet is [source, subset, filters, ops]: "default" when built by   *)
(* model.objects with the keyword filters, "custom" when handed in by the supplier; ops  *)
(* are the search_text / order_by calls made on it, in order.              *)
(***************************************************************************)
Doc(pk, age, author, text, score) ==
  [pk |-> pk, age |-> age, author |-> author, text |-> text, score |-> score]

Pks(docs) == {docs[i].pk : i \in DOMAIN docs}

QuerySet(source, subset, filters, ops) ==
  [source |-> source, subset |-> subset, filters |-> filters, ops |-> ops]

\* Whether a document satisfies the keyword filters of model.objects with the keyword filters.
Matches(doc, filters) ==
  \A k \in DOMAIN filters :
    CASE k = "pk__in" -> doc.pk \in Range(filters[k])
      [] k = "pk" -> doc.pk = filters[k]
      [] k = "age" -> doc.age = filters[k]
      [] k = "author" -> doc.author = filters[k]
      [] OTHER -> FALSE

RECURSIVE SelectDocs(_, _)
SelectDocs(docs, qs) ==
  IF docs = <<>> THEN <<>>
  ELSE (IF Head(docs).pk \in qs.subset /\ Matches(Head(docs), qs.filters)
        THEN <<Head(docs)>> ELSE <<>>) \o SelectDocs(Tail(docs), qs)

RECURSIVE SelectText(_, _)
SelectText(docs, text) ==
  IF docs = <<>> THEN <<>>
  ELSE (IF Head(docs).text = text THEN <<Head(docs)>> ELSE <<>>)
       \o SelectText(Tail(docs), text)

\* The sort key of order_by(key): "-age", "age" or "$text_score" (descending score).
SortsBefore(a, b, key) ==
  CASE key = "age" -> a.age < b.age
    [] key = "-age" -> a.age > b.age
    [] key = "$text_score" -> a.score > b.score
    [] OTHER -> FALSE

RECURSIVE InsertSorted(_, _, _)
InsertSorted(doc, sorted, key) ==
  IF sorted = <<>> THEN <<doc>>
  ELSE IF SortsBefore(doc, Head(sorted), key) THEN <<doc>> \o sorted
  ELSE <<Head(sorted)>> \o InsertSorted(doc, Tail(sorted), key)

\* A stable sort: later documents go after earlier ones of the same key.
RECURSIVE SortDocs(_, _)
SortDocs(docs, key) ==
  IF docs = <<>> THEN <<>>
  ELSE InsertSorted(docs[Len(docs)], SortDocs(SubSeq(docs, 1, Len(docs) - 1), key), key)

RECURSIVE ApplyOps(_, _)
ApplyOps(docs, ops) ==
  IF ops = <<>> THEN docs
  ELSE ApplyOps(IF Head(ops).op = "search_text" THEN SelectText(docs, Head(ops).arg)
                ELSE SortDocs(docs, Head(ops).arg),
                Tail(ops))

\* The documents a QuerySet yields, in order.
Evaluate(qs, docs) == ApplyOps(SelectDocs(docs, qs), qs.ops)

\* QuerySet.__bool__: whether the query has any data.
Truthy(qs, docs) == Evaluate(qs, docs) # <<>>

\* utils.get_model_reference_fields: the model's reference fields and their targets.
reference_fields == [author |-> "Author"]

Authors == {1, 2}

\* A relay global id: (type name, primary key).
GlobalId(type, pk) == <<type, pk>>
from_global_id(gid) == gid

\* utils.get_node_from_global_id: the referenced document (its pk), or None (0).
get_node_from_global_id(model, gid) ==
  IF from_global_id(gid)[2] \in Authors THEN from_global_id(gid)[2] ELSE 0

\* The loop of get_queryset that replaces reference arguments by the referenced node.
RECURSIVE Hydrate(_, _)
Hydrate(args, names) ==
  IF names = {} THEN args
  ELSE LET n == CHOOSE x \in names : TRUE
           rest == Hydrate(args, names \ {n})
       IN IF n \in DOMAIN reference_fields
          THEN [rest EXCEPT ![n] = get_node_from_global_id(reference_fields[n], args[n])]
          ELSE rest

\* the call of self._get_queryset with the arguments: a supplier returns a QuerySet over the
\* documents it chose, or a dict of filters.
CallSupplier(supplier, args) ==
  IF supplier.returns = "queryset"
  THEN [is_queryset |-> TRUE, queryset |-> QuerySet("custom", supplier.subset, EmptyDict, <<>>),
        filters |-> EmptyDict]
  ELSE [is_queryset |-> FALSE, queryset |-> QuerySet("custom", {}, EmptyDict, <<>>),
        filters |-> supplier.filters]

\* The end of get_queryset: search_text and order_by on the query.
ApplySearchAndOrder(queryset, search, order_by) ==
  LET searching == search # <<>> /\ search[1] # ""
      q1 == IF searching
            THEN [queryset EXCEPT !.ops = @ \o <<[op |-> "search_text", arg |-> search[1]]>>]
            ELSE queryset
  IN IF order_by # <<>> /\ order_by[1] # ""
     THEN IF order_by[1] = "relevance"
          THEN IF searching
               THEN [q1 EXCEPT !.ops = @ \o <<[op |-> "order_by", arg |-> "$text_score"]>>]
               ELSE q1
          ELSE [q1 EXCEPT !.ops = @ \o <<[op |-> "order_by", arg |-> order_by[1]]>>]
     ELSE q1

\* get_queryset that builds the default query before popping search and order_by.
get_queryset_no_pop(field, docs, args0) ==
  LET args1 == IF DOMAIN args0 # {} THEN Hydrate(args0, DOMAIN args0) ELSE args0
      supplied == field._get_queryset # <<>> /\ field._get_queryset[1].truthy
      got == CallSupplier(field._get_queryset[1], args1)
      args2 == IF supplied /\ ~got.is_queryset THEN Update(args1, got.filters) ELSE args1
      queryset == IF supplied /\ got.is_queryset /\ Truthy(got.queryset, docs)
                  THEN got.queryset
                  ELSE QuerySet("default", Pks(docs), args2, <<>>)
  IN ApplySearchAndOrder(queryset, PopValue(args2, "search"), PopValue(args2, "order_by"))

\* MongoengineConnectionField.get_queryset on the arguments args0.
get_queryset(field, docs, args0) ==
  LET \* "if args:" the reference arguments are replaced by the nodes they name
      args1 == IF DOMAIN args0 # {} THEN Hydrate(args0, DOMAIN args0) ELSE args0
      supplied == field._get_queryset # <<>> /\ field._get_queryset[1].truthy
      got == CallSupplier(field._get_queryset[1], args1)
      args2 == IF supplied /\ ~got.is_queryset THEN Update(args1, got.filters) ELSE args1
      args3 == Pop(Pop(args2, "search"), "order_by")
      \* "if not queryset": None, or a QuerySet that has no data
      queryset == IF supplied /\ got.is_queryset /\ Truthy(got.queryset, docs)
                  THEN got.queryset
                  ELSE QuerySet("default", Pks(docs), args3, <<>>)
  IN ApplySearchAndOrder(queryset, PopValue(args2, "search"), PopValue(args2, "order_by"))

(***************************************************************************)
(* graphql_relay.connection.arrayconnection, as default_resolver calls it. *)
(* A cursor is the base64 text of "arrayconnection:" followed by digits:   *)
(* [prefix, digits] with digits = <<offset>>, or <<>> for text that is no  *)
(* number.                                                                 *)
(***************************************************************************)
PREFIX == "arrayconnection:"

offset_to_cursor(offset) == [prefix |-> PREFIX, digits |-> <<offset>>]

\* int(unbase64(cursor)[len(PREFIX):]), or None.
cursor_to_offset(cursor) == cursor.digits

get_offset_with_default(cursor, default_offset) ==
  IF cursor = <<>> THEN default_offset
  ELSE IF cursor_to_offset(cursor[1]) = <<>> THEN default_offset
  ELSE cursor_to_offset(cursor[1])[1]

Max(a, b) == IF a >= b THEN a ELSE b
Min(a, b) == IF a <= b THEN a ELSE b

\* Python's seq[start:stop].
PySlice(seq, start, stop) ==
  LET n == Len(seq)
      lo == IF start < 0 THEN Max(start + n, 0) ELSE Min(start, n)
      hi == IF stop < 0 THEN Max(stop + n, 0) ELSE Min(stop, n)
  IN IF lo >= hi THEN <<>> ELSE SubSeq(seq, lo + 1, hi)

\* The offsets start_offset and end_offset of the slice.
SliceOffsets(args, list_length, list_slice_length) ==
  LET slice_start == 0
      slice_end == slice_start + list_slice_length
      before_offset == get_offset_with_default(args.before, list_length)
      after_offset == get_offset_with_default(args.after, -1)
      start0 == Max(Max(slice_start - 1, after_offset), -1) + 1
      end0 == Min(Min(slice_end, before_offset), list_length)
      end_offset == IF args.first # <<>> THEN Min(end0, start0 + args.first[1]) ELSE end0
      start_offset == IF args.last # <<>> THEN Max(start0, end_offset - args.last[1]) ELSE start0
  IN [start_offset |-> start_offset, end_offset |-> end_offset,
      lower_bound |-> IF args.after # <<>> THEN after_offset + 1 ELSE 0,
      upper_bound |-> IF args.before # <<>> THEN before_offset ELSE list_length,
      slice_start |-> slice_start, slice_end |-> slice_end]

\* pageinfo_type(...): the cursors of the first and last edge and the two flags.
PageInfo(args, o, edges) ==
  [start_cursor |-> IF edges # <<>> THEN <<edges[1].cursor>> ELSE <<>>,
   end_cursor |-> IF edges # <<>> THEN <<edges[Len(edges)].cursor>> ELSE <<>>,
   has_previous_page |-> args.last # <<>> /\ o.start_offset > o.lower_bound,
   has_next_page |-> args.first # <<>> /\ o.end_offset < o.upper_bound]

connection_from_list_slice(list_slice, args, list_length, list_slice_length) ==
  LET o == SliceOffsets(args, list_length, list_slice_length)
      _slice == PySlice(list_slice, Max(o.start_offset - o.slice_start, 0),
                        list_slice_length - (o.slice_end - o.end_offset))
      edges == [i \in 1..Len(_slice) |->
                  [node |-> _slice[i], cursor |-> offset_to_cursor(o.start_offset + i - 1)]]
  IN [edges |-> edges, page_info |-> PageInfo(args, o, edges)]

\* connection_args with the two cursors taken from each other's argument.
ConnectionArgsSwapped(args1) ==
  [first |-> PopValue(args1, "first"), last |-> PopValue(args1, "last"),
   before |-> PopValue(args1, "after"), after |-> PopValue(args1, "before")]

\* connection_args: the four pagination arguments, None where not given.
ConnectionArgs(args1) ==
  [first |-> PopValue(args1, "first"), last |-> PopValue(args1, "last"),
   before |-> PopValue(args1, "before"), after |-> PopValue(args1, "after")]

\* default_resolver once the parent's related records are in the arguments (args1).
ResolveArgs(field, docs, args1) ==
  LET connection_args == ConnectionArgs(args1)
      args2 == Pop(Pop(Pop(Pop(args1, "first"), "last"), "before"), "after")
      _id == PopValue(args2, "id")
      args3 == IF _id # <<>>
               THEN Update(Pop(args2, "id"), [pk |-> from_global_id(_id[1])[2]])
               ELSE args2
      \* callable(getattr(self.model, "objects", None))
      queryable == field.type.queryable
      queryset == get_queryset(field, docs, args3)
      iterables == IF queryable THEN Evaluate(queryset, docs) ELSE <<>>
      list_length == Len(iterables)
      connection == connection_from_list_slice(iterables, connection_args,
                                               list_length, list_length)
  IN [edges |-> connection.edges, page_info |-> connection.page_info,
      iterable |-> IF queryable THEN <<queryset>> ELSE <<>>,
      list_length |-> list_length]

\* default_resolver that leaves the parent's related records out of the arguments.
default_resolver_unrestricted(field, docs, _root, args0) == ResolveArgs(field, docs, args0)

\* MongoengineConnectionField.default_resolver: _root is <<>> (None) or <<parent>>,
\* and parent.related are the pks of the records the parent holds under
\* info.field_name.
default_resolver(field, docs, _root, args0) ==
  ResolveArgs(field, docs,
              IF _root # <<>> THEN Update(args0, [pk__in |-> _root[1].related]) ELSE args0)

(***************************************************************************)
(* fields.py: the arguments of a connection field.                         *)
(*                                                                         *)
(* A bound type holds its fields in declaration order, each                *)
(* [name, attr, v]: attr is the model's attribute of that name (a          *)
(* mongoengine field, a property, or none) and v the type's graphene       *)
(* field.  A graphene type is a class, List(of_type) or NonNull(of_type).  *)
(* An argument dict is a function from argument names to their types.      *)
(***************************************************************************)
NonNull(of_type) == GV("NonNull", "", FALSE, "", <<of_type>>, <<>>)
ListType(of_type) == List(of_type, "", FALSE)

\* isinstance(_type, Structure)
IsStructure(_type) == _type.tag \in {"List", "NonNull"}

ScalarNames == {"String", "ID", "Int", "Boolean", "Float", "DateTime", "JSONString"}
AdvancedNames ==
  {"FileFieldType", "PointFieldType", "MultiPolygonFieldType", "Union", "PolygonFieldType"}

\* The mounted field a type holds for an unmounted scalar or list; fields, map
\* fields, connection fields and Dynamic are held as they are.
MountedField(u) ==
  CASE u.tag = "scalar" -> Field(Class(u.name), u.description, u.required)
    [] u.tag = "List" -> Field(ListType(u.inner[1]), u.description, u.required)
    [] OTHER -> u

\* Field.type: the field's type, wrapped in NonNull when the field is required.
FieldType(v) == IF v.required THEN NonNull(v.inner[1]) ELSE v.inner[1]

\* get_filter_type, and the while loop of filter_args: the type inside every Structure.
RECURSIVE get_filter_type(_)
get_filter_type(_type) ==
  IF IsStructure(_type) THEN get_filter_type(_type.inner[1]) ELSE _type

\* not issubclass(x, graphene.Scalar): "TypeError" when x is not a class.
NotScalarSubclass(x) ==
  IF x.tag # "class" THEN "TypeError"
  ELSE IF x.name \in ScalarNames THEN "no" ELSE "yes"

\* is_filterable(k) for the model attribute attr: [ans, st] with ans "yes", "no"
\* or the error raised, and st the entry cache after the conversion.
is_filterable(attr, reg, st) ==
  IF attr.kind \in {"absent", "property"} THEN [ans |-> "no", st |-> st]
  ELSE
    LET r == convert_mongoengine_field(attr, reg, st)
        converted == r.out
        of_list == NotScalarSubclass(converted.inner[1])
        of_field == NotScalarSubclass(FieldType(converted).inner[1])
    IN [st |-> r.st,
        ans |->
          CASE IsRaise(converted) ->
                 IF converted.name = "MongoEngineConversionError" THEN "no"
                 ELSE converted.name
            [] converted.tag \in {"Connection", "Dynamic"} -> "no"
            [] IsField(converted) /\ FieldType(converted).tag = "class"
                 /\ FieldType(converted).name \in AdvancedNames -> "no"
            [] converted.tag = "List" /\ of_list # "no" ->
                 IF of_list = "yes" THEN "no" ELSE of_list
            [] IsField(converted) /\ IsStructure(FieldType(converted))
                 /\ of_field # "no" ->
                 IF of_field = "yes" THEN "no" ELSE of_field
            [] OTHER -> "yes"]

\* One step of the comprehension of _field_args: the item, whether it is_filterable
\* (f), and the dict of the items after it (rest).
FieldArgsWith(item, f, rest) ==
  IF f.ans \notin {"yes", "no"}
  THEN [status |-> f.ans, dict |-> EmptyDict, st |-> f.st]
  ELSE IF rest.status # "ok" \/ f.ans = "no" THEN rest
  ELSE [rest EXCEPT !.dict = rest.dict @@ (item.name :> get_filter_type(FieldType(item.v)))]

\* _field_args(items): [status, dict, st].  Each item's is_filterable is evaluated
\* once (f), and the cache it leaves is the one the next item starts from.
RECURSIVE _field_args(_, _, _)
_field_args(items, reg, st) ==
  IF items = <<>> THEN [status |-> "ok", dict |-> EmptyDict, st |-> st]
  ELSE CHOOSE result \in
         UNION {{FieldArgsWith(Head(items), f, rest) :
                   rest \in {_field_args(Tail(items), reg, f.st)}} :
                  f \in {is_filterable(Head(items).attr, reg, st)}} : TRUE

\* self._type._meta.fields[field]
FieldNamed(fields, name) ==
  fields[CHOOSE i \in DOMAIN fields : fields[i].name = name]

\* The inner loop of filter_args over one field's filter_collection.
RECURSIVE FilterCollectionArgs(_, _, _)
FilterCollectionArgs(fields, field, filter_collection) ==
  IF filter_collection = <<>> THEN EmptyDict
  ELSE LET each == Head(filter_collection)
           filter_type == get_filter_type(FieldType(FieldNamed(fields, field).v))
           advanced == IF each \in {"in", "nin", "all"} THEN ListType(filter_type)
                       ELSE filter_type
       IN FilterCollectionArgs(fields, field, Tail(filter_collection))
          @@ ((field \o "__" \o each) :> advanced)

\* filter_args: filter_fields is the sequence of the [field, filter_collection] items.
RECURSIVE filter_args(_, _)
filter_args(fields, filter_fields) ==
  IF filter_fields = <<>> THEN EmptyDict
  ELSE filter_args(fields, Tail(filter_fields))
       @@ FilterCollectionArgs(fields, Head(filter_fields).field,
                               Head(filter_fields).filter_collection)

\* get_reference_field(r, kv): the entry kv adds to r, if any.  The target of an
\* EmbeddedDocumentField is an EmbeddedDocument; a document's type has an id field
\* whose type is NonNull(ID).
get_reference_field(kv, reg, st) ==
  LET mongo_field == kv.attr
      field == IF IsInstance(mongo_field.kind, {"LazyReferenceField", "ReferenceField"})
               THEN convert_mongoengine_field(mongo_field, reg, st).out
               ELSE kv.v
      _type == DynamicGetType(field, reg)
  IN IF field.tag = "Dynamic" /\ _type.tag # "None"
        /\ ~IsInstance(mongo_field.kind, {"EmbeddedDocumentField"})
     THEN kv.name :> Class("ID")
     ELSE EmptyDict

RECURSIVE reference_args(_, _, _)
reference_args(fields, reg, st) ==
  IF fields = <<>> THEN EmptyDict
  ELSE reference_args(Tail(fields), reg, st) @@ get_reference_field(Head(fields), reg, st)

\* ConnectionField.__init__: the arguments every connection field starts with.
BaseArgs ==
  [before |-> Class("String"), after |-> Class("String"),
   first |-> Class("Int"), last |-> Class("Int")]

\* graphene's to_arguments: the extra arguments are added to the base arguments,
\* and a name that is already there fails its assertion.
to_arguments(args, extra_args) ==
  IF DOMAIN args \cap DOMAIN extra_args # {}
  THEN [status |-> "AssertionError", arguments |-> EmptyDict]
  ELSE [status |-> "ok", arguments |-> args @@ extra_args]

\* The args property once field_args is computed (fa).
ArgsWith(type, reg, fa) ==
  LET extra_args == IF type.searchable
                    THEN [order_by |-> Class("String"), search |-> Class("String")]
                    ELSE [order_by |-> Class("String")]
      merged == extra_args @@ reference_args(type.fields, reg, fa.st)
                  @@ filter_args(type.fields, type.filter_fields) @@ fa.dict
  IN IF fa.status # "ok"
     THEN [status |-> fa.status, arguments |-> EmptyDict, st |-> fa.st]
     ELSE to_arguments(BaseArgs, merged) @@ [st |-> fa.st]

\* The args property (its getter): [status, arguments, st].
args_getter(type, reg, st) ==
  CHOOSE result \in {ArgsWith(type, reg, fa) : fa \in {_field_args(type.fields, reg, st)}} :
    TRUE

(***************************************************************************)
(* The connection field's life: it is constructed, then resolves requests. *)
(* res holds the call of default_resolver in progress and its connection;  *)
(* Return hands the connection to the caller.                              *)
(***************************************************************************)
BoundType(queryable, searchable, fields, filter_fields) ==
  [queryable |-> queryable, searchable |-> searchable,
   fields |-> fields, filter_fields |-> filter_fields]

Construct(type, value) ==
  /\ res = <<>>
  /\ cfield' = <<[arg |-> value, type |-> type] @@ ConnectionFieldInit(value)>>
  /\ argsOut' = <<>>
  /\ UNCHANGED <<chain, registry, entry_type_lookup, created, returned, first_call, conv,
                 collection, res>>

Resolve(_root, args) ==
  /\ res = <<>>
  /\ cfield # <<>>
  /\ cfield[1].status = "ok"
  /\ res' = <<[root |-> _root, args |-> args,
               connection |-> default_resolver(cfield[1], collection, _root, args)]>>
  /\ UNCHANGED <<chain, registry, entry_type_lookup, created, returned, first_call, conv,
                 cfield, argsOut, collection>>

Return ==
  /\ res # <<>>
  /\ res' = <<>>
  /\ UNCHANGED <<chain, registry, entry_type_lookup, created, returned, first_call, conv,
                 cfield, argsOut, collection>>

\* The dicts that hold key with one of the values, or do not hold it.
Opt(key, values) == {EmptyDict} \cup {key :> v : v \in values}

(***************************************************************************)
(* SpecField: a field constructed with any get_queryset value resolves     *)
(* filtered, searched and ordered requests over three documents.           *)
(***************************************************************************)
Supplier(callable, truthy, returns, subset, filters) ==
  [callable |-> callable, truthy |-> truthy, returns |-> returns,
   subset |-> subset, filters |-> filters]

QuerysetSuppliers ==
  {Supplier(TRUE, TRUE, "queryset", s, EmptyDict) : s \in {{1, 2, 3}, {1, 2}, {}}}
FilterSuppliers ==
  {Supplier(TRUE, TRUE, "filters", {}, d) :
     d \in {EmptyDict, [age |-> 20], [pk__in |-> <<1, 2, 3>>], [search |-> "foo"],
            [order_by |-> "age"]}}
\* Values that cannot be called: truthy ("abc", 5) and falsy (0, "", {}).
NonCallables == {Supplier(FALSE, t, "none", {}, EmptyDict) : t \in BOOLEAN}
\* A callable object whose truth value is false.
FalsyCallables == {Supplier(TRUE, FALSE, "queryset", {1, 2, 3}, EmptyDict)}

GetQuerysetValues ==
  {<<>>} \cup {<<v>> : v \in QuerysetSuppliers \cup FilterSuppliers
                             \cup NonCallables \cup FalsyCallables}

FieldDocs == <<Doc(1, 30, 1, "foo", 2), Doc(2, 20, 2, "bar", 0), Doc(3, 30, 0, "foo", 5)>>

Roots == {<<>>} \cup {<<[related |-> r]>> : r \in {<<>>, <<2>>, <<1, 3>>}}

FieldArgs ==
  {a @@ b @@ c @@ d @@ e @@ f :
     a \in Opt("search", {"", "foo"}),
     b \in Opt("order_by", {"", "relevance", "-age"}),
     c \in Opt("id", {GlobalId("AType", 2)}),
     d \in Opt("age", {30}),
     e \in Opt("author", {GlobalId("Author", 1), GlobalId("Author", 9)}),
     f \in Opt("first", {1})}

PlainTypes == {BoundType(q, FALSE, <<>>, <<>>) : q \in BOOLEAN}

InitField ==
  /\ chain = <<>>
  /\ cfield = <<>>
  /\ argsOut = <<>>
  /\ res = <<>>

(***************************************************************************)
(* Spec: building a schema from fields of every kind but maps.             *)
(***************************************************************************)
Init == InitSchema /\ InitField /\ collection = <<>>

Next ==
  \/ \E m \in Models : \E t \in {PlainType(m), NodeType(m)} : Register(m, t)
  \/ \E f \in SchemaFields : Convert(f)

Spec == Init /\ [][Next]_vars

(***************************************************************************)
(* SpecEntry: the entry type cache under map conversions, MapField         *)
(* constructions and direct get_entry_type calls.                          *)
(***************************************************************************)
NextEntry ==
  \/ \E t \in {PlainType("A"), NodeType("A")} : Register("A", t)
  \/ \E f \in MapFields : Convert(f)
  \/ \E v \in ValueTypes : GetEntryType(v)
  \/ \E v \in ValueTypes, r \in BOOLEAN : MapFieldInit(v, "", r)

SpecEntry == Init /\ [][NextEntry]_vars

(***************************************************************************)
(* Properties of the conversion table.                                     *)
(***************************************************************************)
Converted == conv # <<>> /\ conv[1].call = "convert"

\* The documented result type of the kinds whose rule yields a scalar.
DocumentedScalar(kind) ==
  CASE kind \in {"StringField", "EmailField", "URLField"} -> "String"
    [] kind \in {"UUIDField", "ObjectIdField"} -> "ID"
    [] kind \in {"IntField", "LongField", "SequenceField"} -> "Int"
    [] kind = "BooleanField" -> "Boolean"
    [] kind \in {"DecimalField", "FloatField"} -> "Float"
    [] kind = "DateTimeField" -> "DateTime"
    [] kind = "DictField" -> "JSONString"
    [] OTHER -> ""

\* The documented fixed object type of the geospatial and file kinds.
DocumentedObject(kind) ==
  CASE kind = "PointField" -> "PointFieldType"
    [] kind = "PolygonField" -> "PolygonFieldType"
    [] kind = "MultiPolygonField" -> "MultiPolygonFieldType"
    [] kind = "FileField" -> "FileFieldType"
    [] OTHER -> ""

\* C1: converting a field whose class has no dispatch rule (its own or inherited)
\* raises MongoEngineConversionError whose arguments are the field and its class;
\* it returns neither a field nor None.
C1_UnknownKindRaises ==
  (Converted /\ conv[1].field.kind \in UnregisteredKinds)
    => /\ conv[1].out.tag = "Error"
       /\ conv[1].out.name = "MongoEngineConversionError"
       /\ conv[1].out.about = <<conv[1].field, conv[1].field.kind>>

C1_Witness ==
  /\ Converted
  /\ conv[1].field.kind = "BinaryField"
  /\ conv[1].field.required
  /\ conv[1].out.tag = "Error"

\* C2: for every kind whose rule yields a scalar or a fixed object type, the result
\* is of the documented type and its required flag is the field's required flag.
C2_DocumentedTypeAndRequired ==
  Converted =>
    LET f == conv[1].field
        out == conv[1].out
    IN /\ DocumentedScalar(f.kind) # "" =>
            /\ out.tag = "scalar"
            /\ out.name = DocumentedScalar(f.kind)
            /\ out.required = f.required
       /\ DocumentedObject(f.kind) # "" =>
            /\ out.tag = "Field"
            /\ out.inner = <<Class(DocumentedObject(f.kind))>>
            /\ out.required = f.required

\* C8: a list whose element is a relation to a type registered as a node converts to
\* that type's connection field; a list of a scalar or fixed-object element converts
\* to a List of that type carrying the list field's required flag; a list whose
\* element is a reference or embedded document with no registered type converts to
\* None, and raises nothing.
C8_ListConversion ==
  (Converted /\ conv[1].field.kind \in {"ListField", "EmbeddedDocumentListField"}) =>
    LET f == conv[1].field
        e == f.inner[1]
        out == conv[1].out
    IN /\ (e.kind \in RelationKinds /\ registry[e.model] \in NodeTypes) =>
            out = ConnectionFieldOf(Class(registry[e.model]))
       /\ DocumentedScalar(e.kind) # "" =>
            /\ out.tag = "List"
            /\ out.inner = <<Class(DocumentedScalar(e.kind))>>
            /\ out.required = f.required
       /\ DocumentedObject(e.kind) # "" =>
            /\ out.tag = "List"
            /\ out.inner = <<Class(DocumentedObject(e.kind))>>
            /\ out.required = f.required
       /\ (e.kind \in {"ReferenceField", "EmbeddedDocumentField"} /\ registry[e.model] = "") =>
            out = NoneValue

C8_Witness ==
  /\ Converted
  /\ conv[1].field.kind = "EmbeddedDocumentListField"
  /\ conv[1].field.required
  /\ registry[conv[1].field.inner[1].model] \in NodeTypes
  /\ conv[1].out.tag = "Connection"

(***************************************************************************)
(* Properties of the entry type cache.                                     *)
(***************************************************************************)
\* What holds of the cache and of every call made so far.
EntryCacheConsistent ==
  /\ \A n \in DOMAIN entry_type_lookup : Len(entry_type_lookup[n]) = 1
  /\ created = Cardinality(DOMAIN entry_type_lookup)
  /\ \A p \in returned :
       LET name == p[1].name
       IN /\ name \in DOMAIN entry_type_lookup
          /\ entry_type_lookup[name] = <<p[2]>>
          /\ p[2].name = name \o "Entry"
          /\ p[2].value = first_call[name]

\* A step neither removes nor replaces a stored entry.
EntryKept ==
  \A n \in DOMAIN entry_type_lookup :
    n \in DOMAIN entry_type_lookup' /\ entry_type_lookup'[n] = entry_type_lookup[n]

\* C3: the cache holds one Entry class per value-type name, as many as were ever
\* synthesized; a stored entry is never replaced or removed; and every call returned
\* the entry stored under its value type's name, which is named <name>Entry and was
\* synthesized for the value type of the first call made with that name.
C3_OneEntryPerName == []EntryCacheConsistent /\ [][EntryKept]_vars

C3_Witness ==
  \E p \in returned, q \in returned :
    /\ p[1] # q[1]
    /\ p[1].name = q[1].name
    /\ p[2] = q[2]
    /\ p[2].value = q[1]

(***************************************************************************)
(* SpecField.                                                              *)
(***************************************************************************)
InitQuery == InitSchema /\ InitField /\ collection = FieldDocs

NextField ==
  \/ res = <<>> /\ \E t \in PlainTypes, g \in GetQuerysetValues : Construct(t, g)
  \/ res = <<>> /\ \E r \in Roots, a \in FieldArgs : Resolve(r, a)
  \/ Return

SpecField == InitQuery /\ [][NextField]_vars

(***************************************************************************)
(* SpecPage: a field without supplier pages through up to MaxDocs          *)
(* documents.                                                              *)
(***************************************************************************)
PageDocs(n) == [i \in 1..n |-> Doc(i, (i * 7) % 3, 0, "", 0)]

\* The cursors of every offset up to one past the list's length, and one that is no
\* number.
Cursors(n) ==
  {offset_to_cursor(i) : i \in 0..(n + 1)} \cup {[prefix |-> PREFIX, digits |-> <<>>]}

PageArgs(n) ==
  {a @@ b @@ c @@ d @@ e :
     a \in Opt("first", 0..MaxPage), b \in Opt("last", 0..MaxPage),
     c \in Opt("before", Cursors(n)), d \in Opt("after", Cursors(n)),
     e \in Opt("order_by", {"-age"})}

InitPage ==
  /\ InitSchema
  /\ chain = <<>>
  /\ argsOut = <<>>
  /\ res = <<>>
  /\ cfield = <<[arg |-> <<>>, type |-> BoundType(TRUE, FALSE, <<>>, <<>>)]
                @@ ConnectionFieldInit(<<>>)>>
  /\ \E n \in 0..MaxDocs : collection = PageDocs(n)

NextPage ==
  \/ res = <<>> /\ \E a \in PageArgs(Len(collection)) : Resolve(<<>>, a)
  \/ Return

SpecPage == InitPage /\ [][NextPage]_vars

(***************************************************************************)
(* fields.py: get_resolver and chained_resolver.                           *)
(*                                                                         *)
(* A resolver is [name, partial, returns]: whether it is a                 *)
(* functools.partial, and what it returns (<<>> for None).  chain holds    *)
(* the chained_resolver call in progress: pc is its position, log the      *)
(* calls it has made, in order, each with the root, info and arguments it  *)
(* passed, and result what it returned.                                    *)
(***************************************************************************)
Resolver(name, partial, returns) == [name |-> name, partial |-> partial, returns |-> returns]

\* get_resolver: the field's own resolver, or else the parent resolver, and whether
\* it is a partial; own is <<>> (self.resolver is None) or <<resolver>>.
get_resolver(own, parent_resolver) ==
  LET super_resolver == IF own # <<>> THEN own[1] ELSE parent_resolver
  IN [resolver |-> super_resolver, is_partial |-> super_resolver.partial]

\* The test of chained_resolver with "and" in place of "or".
TriesResolverBoth(args, is_partial) == ~(DOMAIN args # {}) /\ ~is_partial

\* "if not bool(args) or not is_partial"
TriesResolver(args, is_partial) == ~(DOMAIN args # {}) \/ ~is_partial

Called(fn, c) == [fn |-> fn, root |-> c.root, info |-> c.info, args |-> c.args]

\* chained_resolver is entered and makes its test.
ChainedResolver(own, parent_resolver, root, info, args) ==
  /\ chain = <<>>
  /\ res = <<>>
  /\ cfield # <<>>
  /\ cfield[1].status = "ok"
  /\ LET r == get_resolver(own, parent_resolver)
     IN chain' = <<[pc |-> IF TriesResolver(args, r.is_partial) THEN "resolver"
                           ELSE "default_resolver",
                    resolver |-> r.resolver, is_partial |-> r.is_partial,
                    root |-> root, info |-> info, args |-> args,
                    log |-> <<>>, result |-> <<>>]>>
  /\ UNCHANGED <<registry, entry_type_lookup, created, returned, first_call, conv,
                 cfield, argsOut, collection, res>>

\* resolved = resolver(root, info, **args); a value that is not None is returned.
CallResolver ==
  /\ chain # <<>>
  /\ chain[1].pc = "resolver"
  /\ LET c == chain[1]
         resolved == c.resolver.returns
     IN chain' = <<[c EXCEPT !.log = Append(@, Called(c.resolver.name, c)),
                             !.pc = IF resolved # <<>> THEN "return" ELSE "default_resolver",
                             !.result = resolved]>>
  /\ UNCHANGED <<registry, entry_type_lookup, created, returned, first_call, conv,
                 cfield, argsOut, collection, res>>

\* return self.default_resolver(root, info, **args)
CallDefaultResolver ==
  /\ chain # <<>>
  /\ chain[1].pc = "default_resolver"
  /\ LET c == chain[1]
         connection == default_resolver(cfield[1], collection, c.root, c.args)
     IN /\ res' = <<[root |-> c.root, args |-> c.args, connection |-> connection]>>
        /\ chain' = <<[c EXCEPT !.log = Append(@, Called("default_resolver", c)),
                                !.pc = "return",
                                !.result = <<connection>>]>>
  /\ UNCHANGED <<registry, entry_type_lookup, created, returned, first_call, conv,
                 cfield, argsOut, collection>>

\* The result is handed to the caller.
ChainedReturn ==
  /\ chain # <<>>
  /\ chain[1].pc = "return"
  /\ chain' = <<>>
  /\ res' = <<>>
  /\ UNCHANGED <<registry, entry_type_lookup, created, returned, first_call, conv,
                 cfield, argsOut, collection>>

(***************************************************************************)
(* SpecChain: a field without supplier over three documents is resolved    *)
(* through chained_resolver, with and without a resolver of its own.       *)
(***************************************************************************)
Resolvers(name) ==
  {Resolver(name, p, r) : p \in BOOLEAN, r \in {<<>>, <<"resolved">>, <<"">>}}

Infos == {"info", "other info"}

ChainArgs == {EmptyDict} \cup {[first |-> 1], [age |-> 30], [order_by |-> "-age", age |-> 30]}

InitChain ==
  /\ InitSchema
  /\ chain = <<>>
  /\ argsOut = <<>>
  /\ res = <<>>
  /\ cfield = <<[arg |-> <<>>, type |-> BoundType(TRUE, FALSE, <<>>, <<>>)]
                @@ ConnectionFieldInit(<<>>)>>
  /\ collection = FieldDocs

NextChain ==
  \/ chain = <<>> /\
       \E own \in {<<>>} \cup {<<r>> : r \in Resolvers("resolver")} :
         \E parent_resolver \in Resolvers("parent_resolver") :
           \E root \in Roots, info \in Infos, args \in ChainArgs :
             ChainedResolver(own, parent_resolver, root, info, args)
  \/ CallResolver
  \/ CallDefaultResolver
  \/ ChainedReturn

SpecChain == InitChain /\ [][NextChain]_vars

(***************************************************************************)
(* SpecArgs: types of up to MaxFields fields, bound while the registry     *)
(* fills, have their arguments computed.                                   *)
(***************************************************************************)
MaxFields == 2

Named(name, attr) == [name |-> name, attr |-> attr]
Attr(kind) == MF(kind, FALSE, "", <<>>, "", <<>>)
ListOf(element) == MF("ListField", FALSE, "", <<element>>, "", <<>>)

\* The attributes a model may have, by name, in alphabetical order.
FieldCatalog ==
  << Named("age", Attr("IntField")),
     Named("author", MF("ReferenceField", FALSE, "", <<>>, "A", <<>>)),
     Named("extra", Attr("absent")),
     Named("first", Attr("StringField")),
     Named("grid", ListOf(ListOf(Attr("StringField")))),
     Named("helper", Attr("property")),
     Named("home", MF("EmbeddedDocumentField", FALSE, "", <<>>, "B", <<>>)),
     Named("labels", MF("MapField", FALSE, "", <<Attr("StringField")>>, "", <<>>)),
     Named("loc", Attr("PointField")),
     Named("name", MF("StringField", TRUE, "", <<>>, "", <<>>)),
     Named("posts", ListOf(MF("ReferenceField", FALSE, "", <<>>, "A", <<>>))),
     Named("raw", Attr("BinaryField")),
     Named("tags", ListOf(Attr("StringField"))) >>

\* The type's field for a model attribute: the mounted conversion, or a String
\* field the type declares itself where there is nothing to convert.
TypeField(c, reg, st) ==
  LET out == IF c.attr.kind \in {"absent", "property"} THEN NoneValue
             ELSE convert_mongoengine_field(c.attr, reg, st).out
  IN [name |-> c.name, attr |-> c.attr,
      v |-> IF IsRaise(out) \/ c.attr.kind \in {"absent", "property"}
            THEN Field(Class("String"), "", FALSE)
            ELSE MountedField(out)]

\* The fields of a type built from the catalog entries picked: an attribute whose
\* conversion yields None gets no field.
RECURSIVE TypeFields(_, _, _)
TypeFields(picked, reg, st) ==
  IF picked = <<>> THEN <<>>
  ELSE LET f == TypeField(FieldCatalog[Head(picked)], reg, st)
       IN (IF f.v.tag = "None" THEN <<>> ELSE <<f>>) \o TypeFields(Tail(picked), reg, st)

Increasing(seq) == \A i \in DOMAIN seq : i > 1 => seq[i - 1] < seq[i]

Picks ==
  {p \in UNION {[1..n -> DOMAIN FieldCatalog] : n \in 0..MaxFields} : Increasing(p)}

FilterCollections == {<<"gt", "in">>, <<"ne">>, <<"all", "nin">>}

\* The filter_fields configurations over the scalar fields of a type.
FilterConfigs(fields) ==
  LET names == {fields[i].name : i \in DOMAIN fields} \cap {"age", "first", "name", "tags"}
  IN {<<>>}
     \cup {<<[field |-> n, filter_collection |-> c]>> : n \in names, c \in FilterCollections}
     \cup {<<[field |-> "age", filter_collection |-> <<"gt", "in">>],
             [field |-> n, filter_collection |-> <<"ne">>]>> :
            n \in IF "age" \in names THEN names \ {"age"} ELSE {}}

\* The args property is read: the arguments are computed against the registry as
\* it is, converting the model's fields again.
EvalArgs ==
  /\ cfield # <<>>
  /\ cfield[1].status = "ok"
  /\ argsOut = <<>>
  /\ LET r == args_getter(cfield[1].type, registry, CacheState)
     IN /\ argsOut' = <<[registry |-> registry, status |-> r.status,
                         arguments |-> r.arguments]>>
        /\ SetCache(r.st)
  /\ UNCHANGED <<chain, registry, conv, cfield, collection, res>>

NextArgs ==
  \/ \E m \in Models : \E t \in {PlainType(m), NodeType(m)} : Register(m, t)
  \/ cfield = <<>> /\
       \E p \in Picks : \E ff \in FilterConfigs(TypeFields(p, registry, CacheState)) :
         \E s \in BOOLEAN :
           Construct(BoundType(TRUE, s, TypeFields(p, registry, CacheState), ff), <<>>)
  \/ EvalArgs

SpecArgs == Init /\ [][NextArgs]_vars

(***************************************************************************)
(* Properties of the connection field's arguments.                         *)
(***************************************************************************)
ArgsType == cfield[1].type

\* The attributes that convert to a scalar or to a list of scalars.
ScalarAttr(attr) == DocumentedScalar(attr.kind) # ""
FilterableAttr(attr) ==
  ScalarAttr(attr) \/ (attr.kind = "ListField" /\ ScalarAttr(attr.inner[1]))

InnermostScalar(attr) ==
  Class(DocumentedScalar(IF attr.kind = "ListField" THEN attr.inner[1].kind ELSE attr.kind))

FilterableNames ==
  {ArgsType.fields[i].name : i \in {j \in DOMAIN ArgsType.fields :
                                      FilterableAttr(ArgsType.fields[j].attr)}}

\* The (field, operator) pairs of the filter configuration.
FilterPairs ==
  UNION {{<<ArgsType.filter_fields[i].field, ArgsType.filter_fields[i].filter_collection[j]>> :
            j \in DOMAIN ArgsType.filter_fields[i].filter_collection} :
           i \in DOMAIN ArgsType.filter_fields}

\* The reference fields whose target document has a registered type.
ReferenceNames(reg) ==
  {ArgsType.fields[i].name : i \in {j \in DOMAIN ArgsType.fields :
       /\ ArgsType.fields[j].attr.kind = "ReferenceField"
       /\ reg[ArgsType.fields[j].attr.model] # ""}}

ExpectedNames(reg) ==
  {"first", "last", "before", "after", "order_by"}
  \cup FilterableNames
  \cup {pair[1] \o "__" \o pair[2] : pair \in FilterPairs}
  \cup ReferenceNames(reg)
  \cup (IF ArgsType.searchable THEN {"search"} ELSE {})

Orders(seq) ==
  {[i \in DOMAIN seq |-> seq[p[i]]] :
     p \in {q \in [DOMAIN seq -> DOMAIN seq] : \A i, j \in DOMAIN seq : q[i] = q[j] => i = j}}

\* The arguments args yields for the type with its fields and filter configuration
\* in another order.
Reordered(fields, filter_fields, reg) ==
  args_getter([ArgsType EXCEPT !.fields = fields, !.filter_fields = filter_fields],
              reg, CacheState)

\* C4: for any bound type args yields the arguments named first, last, before,
\* after, order_by, the filterable fields, <field>__<operator> for every pair of
\* the filter configuration, the reference targets, and search exactly when the
\* type is searchable; a <field>__<operator> argument is a list of the field's
\* innermost scalar for in, nin and all and that scalar otherwise; the arguments
\* are the same for every order of the fields and of the filter configuration.
C4_ArgumentNames ==
  argsOut # <<>> =>
    LET out == argsOut[1]
    IN /\ out.status = "ok"
       /\ DOMAIN out.arguments = ExpectedNames(out.registry)
       /\ \A pair \in FilterPairs :
            LET scalar == InnermostScalar(FieldNamed(ArgsType.fields, pair[1]).attr)
            IN out.arguments[pair[1] \o "__" \o pair[2]] =
                 IF pair[2] \in {"in", "nin", "all"} THEN ListType(scalar) ELSE scalar
       /\ \A fields \in Orders(ArgsType.fields) :
            \A filter_fields \in Orders(ArgsType.filter_fields) :
              LET other == Reordered(fields, filter_fields, out.registry)
              IN other.status = out.status /\ other.arguments = out.arguments

(***************************************************************************)
(* Properties of the connection field.                                     *)
(***************************************************************************)
Resolved == res # <<>> /\ res[1].connection.iterable # <<>>
ResolvedQuery == res[1].connection.iterable[1]

\* The supplier get_queryset calls: the stored value, when it is truthy.
ActiveSupplier ==
  IF cfield[1]._get_queryset # <<>> /\ cfield[1]._get_queryset[1].truthy
  THEN cfield[1]._get_queryset ELSE <<>>

\* The arguments of the call once a supplier's mapping is merged into them.
WorkingArgs ==
  IF ActiveSupplier # <<>> /\ ActiveSupplier[1].returns = "filters"
  THEN ActiveSupplier[1].filters @@ res[1].args
  ELSE res[1].args

SearchValue == IF HasKey(WorkingArgs, "search") THEN WorkingArgs["search"] ELSE ""
OrderValue == IF HasKey(WorkingArgs, "order_by") THEN WorkingArgs["order_by"] ELSE ""

OpsOf(qs, op) == {i \in DOMAIN qs.ops : qs.ops[i].op = op}

\* C5: search and order_by are never keyword filters of the default query; the text
\* search is applied exactly when a non-empty search is given, and before any
\* ordering; ordering by text score is applied exactly when order_by is "relevance"
\* and a non-empty search is given; "relevance" without search orders nothing; any
\* other non-empty order_by is applied as given.
C5_SearchAndOrder ==
  Resolved =>
    LET qs == ResolvedQuery
        searches == OpsOf(qs, "search_text")
        orders == OpsOf(qs, "order_by")
    IN /\ qs.source = "default" =>
            ~HasKey(qs.filters, "search") /\ ~HasKey(qs.filters, "order_by")
       /\ (searches # {}) <=> (SearchValue # "")
       /\ \A i \in searches : qs.ops[i].arg = SearchValue
       /\ \A i \in searches, j \in orders : i < j
       /\ (\E j \in orders : qs.ops[j].arg = "$text_score")
            <=> (OrderValue = "relevance" /\ SearchValue # "")
       /\ (OrderValue = "relevance" /\ SearchValue = "") => orders = {}
       /\ OrderValue \notin {"", "relevance"} =>
            Cardinality(orders) = 1 /\ \A j \in orders : qs.ops[j].arg = OrderValue

C5_Witness ==
  /\ Resolved
  /\ ResolvedQuery.source = "default"
  /\ HasKey(res[1].args, "search") /\ res[1].args["search"] = "foo"
  /\ HasKey(res[1].args, "order_by") /\ res[1].args["order_by"] = "relevance"
  /\ Len(ResolvedQuery.ops) = 2
  /\ ResolvedQuery.ops[2].arg = "$text_score"

NodePks(connection) == {connection.edges[i].node.pk : i \in DOMAIN connection.edges}

C9_NonCallableRejected ==
  cfield # <<>> =>
    LET c == cfield[1]
    IN /\ (c.arg # <<>> /\ ~c.arg[1].callable) => c.status = "AssertionError"
       /\ (c.arg = <<>> \/ c.arg[1].callable) =>
            c.status = "ok" /\ c._get_queryset = c.arg

\* C10: when the supplier in effect returns a QuerySet, the query is that object
\* and the default query is not built; the default query is built only without a
\* supplier or from the arguments merged with the mapping a supplier returned.
C10_ReadyQueryUsedAsIs ==
  Resolved =>
    LET qs == ResolvedQuery
    IN /\ (ActiveSupplier # <<>> /\ ActiveSupplier[1].callable
           /\ ActiveSupplier[1].returns = "queryset") =>
            qs.source = "custom" /\ qs.subset = ActiveSupplier[1].subset
       /\ qs.source = "default" =>
            \/ ActiveSupplier = <<>>
            \/ /\ ActiveSupplier[1].returns = "filters"
               /\ \A k \in DOMAIN ActiveSupplier[1].filters \ {"search", "order_by"} :
                    HasKey(qs.filters, k) /\ qs.filters[k] = ActiveSupplier[1].filters[k]

(***************************************************************************)
(* Properties of the pages default_resolver returns.                       *)
(***************************************************************************)
PageLength == res[1].connection.list_length
PageEdges == res[1].connection.edges
PageFlags == res[1].connection.page_info

\* The documents the query matches, in the query's result order.
PageList == Evaluate(ResolvedQuery, collection)

Given(k) == HasKey(res[1].args, k)

\* The offset a cursor argument stands for; default when it is absent or no number.
OffsetOf(k, default) ==
  IF Given(k) /\ res[1].args[k].digits # <<>> THEN res[1].args[k].digits[1] ELSE default

AfterOffset == OffsetOf("after", -1)
BeforeOffset == OffsetOf("before", PageLength)

Eligible == {i \in 0..(PageLength - 1) : AfterOffset < i /\ i < BeforeOffset}
FirstOf(S, k) == {i \in S : Cardinality({j \in S : j < i}) < k}
LastOf(S, k) == {i \in S : Cardinality({j \in S : j > i}) < k}
AfterFirst == IF Given("first") THEN FirstOf(Eligible, res[1].args["first"]) ELSE Eligible
AfterLast == IF Given("last") THEN LastOf(AfterFirst, res[1].args["last"]) ELSE AfterFirst

\* The edges are the documents at the offsets of AfterLast, in increasing offset,
\* each with the cursor of its offset.
EdgesAre(offsets) ==
  /\ Len(PageEdges) = Cardinality(offsets)
  /\ \A k \in DOMAIN PageEdges :
       /\ PageEdges[k].cursor.prefix = PREFIX
       /\ Len(PageEdges[k].cursor.digits) = 1
       /\ PageEdges[k].cursor.digits[1] \in offsets
       /\ PageEdges[k].node = PageList[PageEdges[k].cursor.digits[1] + 1]
       /\ k > 1 => PageEdges[k - 1].cursor.digits[1] < PageEdges[k].cursor.digits[1]

\* The after cursor lies before the before cursor and inside the list.
RangeInOrder == AfterOffset < BeforeOffset /\ AfterOffset < PageLength

IsExample ==
  /\ Resolved
  /\ PageLength = 10
  /\ res[1].args = [first |-> 3, after |-> offset_to_cursor(2)]

ChainCalls(fn) == {i \in DOMAIN chain[1].log : chain[1].log[i].fn = fn}
ResolverCalls == ChainCalls(chain[1].resolver.name)
DefaultCalls == ChainCalls("default_resolver")

\* No arguments were supplied, or the resolver is no partial.
ResolverFirst == chain[1].args = EmptyDict \/ ~chain[1].resolver.partial

ChainedOrder ==
  chain # <<>> =>
    LET c == chain[1]
    IN /\ \A i \in DOMAIN c.log :
            /\ c.log[i].root = c.root
            /\ c.log[i].info = c.info
            /\ c.log[i].args = c.args
       /\ ResolverCalls \cup DefaultCalls = DOMAIN c.log
       /\ Cardinality(ResolverCalls) <= 1 /\ Cardinality(DefaultCalls) <= 1
       /\ ResolverCalls # {} => ResolverFirst
       /\ \A i \in ResolverCalls, j \in DefaultCalls : i < j
       /\ DefaultCalls # {} => (ResolverFirst => ResolverCalls # {})
       /\ c.pc = "return" =>
            /\ ResolverCalls # {} <=> ResolverFirst
            /\ IF ResolverFirst /\ c.resolver.returns # <<>>
               THEN DefaultCalls = {} /\ c.result = c.resolver.returns
               ELSE /\ Cardinality(DefaultCalls) = 1
                    /\ c.result =
                         <<default_resolver(cfield[1], collection, c.root, c.args)>>

\* A call made stays made: the log of the call in progress only grows.
ChainedLogGrows ==
  (chain # <<>> /\ chain' # <<>>) =>
    /\ Len(chain'[1].log) >= Len(chain[1].log)
    /\ SubSeq(chain'[1].log, 1, Len(chain[1].log)) = chain[1].log

\* C11: chained_resolver calls the custom (or parent) resolver, and before the
\* default resolver, exactly when no arguments were supplied or the resolver is no
\* partial; a value it returns that is not None is the result and default_resolver
\* is not called; otherwise default_resolver is called exactly once, with the same
\* root, info and arguments, and its result is the result.
C11_ResolverThenDefault == []ChainedOrder /\ [][ChainedLogGrows]_vars

C11_Witness ==
  /\ chain # <<>>
  /\ chain[1].pc = "return"
  /\ chain[1].args = EmptyDict
  /\ chain[1].resolver.partial
  /\ chain[1].resolver.name = "parent_resolver"
  /\ chain[1].resolver.returns = <<>>
  /\ Len(chain[1].log) = 2
  /\ chain[1].log[1].fn = "parent_resolver"
  /\ chain[1].log[2].fn = "default_resolver"

====
